---- MODULE Spec2Model ----
(***************************************************************************)
(* yellowbrick.regressor.residuals: the PredictionError and ResidualsPlot  *)
(* score visualizers and their quick methods.                              *)
(*                                                                         *)
(* One visualizer object is modelled: its class, wrapped estimator and     *)
(* colour configuration are fixed by the constructor (Init); every public  *)
(* method is one action.  Numbers are fixed point, in tenths (1.1 is 11),  *)
(* so that the arithmetic of the source is computed and not assumed.       *)
(* Every method appends itself to `calls` when it is entered, naming its   *)
(* caller, so nested calls (fit -> score -> draw) appear in call order.    *)
(***************************************************************************)
EXTENDS Integers, Sequences, FiniteSets, TLC

VARIABLES visualizer, ret, returned

vars == <<visualizer, ret, returned>>

(* ---------------------------------------------------------------- bounds *)

\* Number of method calls a user makes on one visualizer.
MaxCalls == 3

(* ------------------------------------------------------------- constants *)

\* The literal 1 of `y.min()-1`, in tenths.
One == 10
\* alpha = 0.5 if train else 1.0, in tenths.
TrainAlpha == 5
TestAlpha == 10
\* s=40
MarkerSize == 40
\* test_size=0.2, in tenths.
TestSize == 2

LINE_COLOR == "dark grey"

(* ------------------------------------------------- sequences and numbers *)

RECURSIVE SeqMin(_)
SeqMin(s) ==
    IF Len(s) = 1 THEN s[1]
    ELSE LET m == SeqMin(Tail(s)) IN IF s[1] < m THEN s[1] ELSE m

RECURSIVE SeqMax(_)
SeqMax(s) ==
    IF Len(s) = 1 THEN s[1]
    ELSE LET m == SeqMax(Tail(s)) IN IF s[1] > m THEN s[1] ELSE m

RECURSIVE SeqSum(_)
SeqSum(s) == IF s = <<>> THEN 0 ELSE s[1] + SeqSum(Tail(s))

\* numpy's element-wise a - b on equal-length arrays.
Minus(a, b) == [i \in 1..Len(a) |-> a[i] - b[i]]

(* ------------------------------------------------- the wrapped estimator *)

\* What an estimator can learn: a map from a feature value to a prediction.
ModelA == (10 :> 11 @@ 20 :> 22 @@ 30 :> 29)
ModelB == (10 :> 50 @@ 20 :> 60 @@ 30 :> -15)
Unfitted == (10 :> 0 @@ 20 :> 0 @@ 30 :> 0)
Models == {ModelA, ModelB}

\* estimator.predict(X)
EstimatorPredict(estimator, X) == [i \in 1..Len(X) |-> estimator.coef[X[i]]]

\* estimator.score(X, y): the coefficient of determination 1 - ss_res/ss_tot,
\* kept as the exact pair (ss_res, n * ss_tot).
EstimatorScore(estimator, X, y) ==
    LET p == EstimatorPredict(estimator, X)
        n == Len(y)
        res == [i \in 1..n |-> (y[i] - p[i]) * (y[i] - p[i])]
        tot == [i \in 1..n |-> (n * y[i] - SeqSum(y)) * (n * y[i] - SeqSum(y))]
    IN  [kind |-> "float", ss_res |-> SeqSum(res), ss_tot |-> SeqSum(tot)]

\* estimator.fit(X, y): the estimator learns `learned` from the data.
EstimatorFit(estimator, X, y, learned) ==
    [estimator EXCEPT !.fitted = TRUE, !.coef = learned]

(* ------------------------------------------------------------ input sets *)

Datasets ==
    { [X |-> <<10, 20, 30>>, y |-> <<10, 20, 30>>],
      [X |-> <<10, 20>>, y |-> <<40, 80>>],
      [X |-> <<30>>, y |-> <<-20>>],
      [X |-> <<10, 20, 30, 20, 10>>, y |-> <<10, 20, 30, 40, 80>>] }

\* Arguments of a direct call to draw: any two equal-length arrays.
DrawArgs ==
    { <<<<10, 20, 30>>, <<11, 22, 29>>>>,
      <<<<50, 60>>, <<10, -20>>>>,
      <<<<-15>>, <<40>>>> }

(* ------------------------------------------------- the plotting surface  *)

\* A new Axes: no artists, no text, the default view limits.
NewAxes ==
    [ artists |-> <<>>, title |-> <<>>, xlabel |-> "", ylabel |-> "",
      xlim |-> <<0, One>>, ylim |-> <<0, One>>,
      legend |-> [labels |-> <<>>, handles |-> <<>>] ]

AxScatter(ax, x, y, style) ==
    [ax EXCEPT !.artists = Append(@, [kind |-> "scatter", x |-> x, y |-> y, style |-> style])]

AxSetXlim(ax, lo, hi) == [ax EXCEPT !.xlim = <<lo, hi>>]
AxSetYlim(ax, lo, hi) == [ax EXCEPT !.ylim = <<lo, hi>>]
AxSetXlabel(ax, text) == [ax EXCEPT !.xlabel = text]
AxSetYlabel(ax, text) == [ax EXCEPT !.ylabel = text]

AxAxhline(ax, y, c) ==
    [ax EXCEPT !.artists = Append(@, [kind |-> "axhline", y |-> y, c |-> c])]

IsLine(a) == a.kind \in {"axhline", "bestfit"}

\* ax.legend(labels, ...): the labels are given to the artists on the surface
\* at the time of the call, lines before scatter collections, as many as
\* there are labels.
AxLegend(ax, labels, loc, frameon) ==
    LET lines == SelectSeq(ax.artists, IsLine)
        colls == SelectSeq(ax.artists, LAMBDA a : ~IsLine(a))
        all == lines \o colls
        k == IF Len(all) < Len(labels) THEN Len(all) ELSE Len(labels)
    IN  [ax EXCEPT !.legend = [labels |-> labels, handles |-> SubSeq(all, 1, k),
                               loc |-> loc, frameon |-> frameon]]

\* bestfit.draw_best_fit(X, y, ax, estimator, **kwargs): one fitted line.
draw_best_fit(X, y, ax, estimator, ls, lw, c) ==
    [ax EXCEPT !.artists = Append(@, [kind |-> "bestfit", estimator |-> estimator,
                                       X |-> X, y |-> y, ls |-> ls, lw |-> lw, c |-> c])]

(* ------------------------------------------------ the base visualizer    *)

Enter(self, call) == [self EXCEPT !.calls = Append(@, call)]

\* ScoreVisualizer.fit(X, y): fits the wrapped estimator.
BaseFit(self, X, y, learned, caller) ==
    LET s0 == Enter(self, [op |-> "fit", caller |-> caller, X |-> X, y |-> y])
    IN  [ self |-> [s0 EXCEPT !.estimator = EstimatorFit(@, X, y, learned)],
          ret |-> [kind |-> "self"] ]

\* ScoreVisualizer.predict(X)
Predict(self, X) == EstimatorPredict(self.estimator, X)

\* Visualizer.set_title(title)
SetTitle(self, title) == [self EXCEPT !.ax.title = title]

(* --------------------------------------------------------- PredictionError *)

\* PredictionError.__init__(model, ax=None, **kwargs)
PE_init(model, point_color, line_color) ==
    [ kind |-> "PredictionError", estimator |-> model, ax |-> NewAxes,
      colors |-> [point |-> point_color, line |-> line_color],
      calls |-> <<>> ]

\* Mutants of draw: the y-range taken from the targets; the lower y-limit
\* without its margin; the best-fit line drawn on the first call only.
PE_draw_YlimFromTargets(self, y, y_pred, caller) ==
    LET s0 == Enter(self, [op |-> "draw", caller |-> caller, y |-> y, y_pred |-> y_pred])
        a1 == AxScatter(s0.ax, y, y_pred, [c |-> s0.colors.point])
        a2 == draw_best_fit(y, y_pred, a1, "linear", "--", 2, s0.colors.line)
        a3 == AxSetXlim(a2, SeqMin(y) - One, SeqMax(y) + One)
        a4 == AxSetYlim(a3, SeqMin(y) - One, SeqMax(y) + One)
    IN  [self |-> [s0 EXCEPT !.ax = a4], ret |-> [kind |-> "ax", ax |-> a4]]

PE_draw_NoLowerMargin(self, y, y_pred, caller) ==
    LET s0 == Enter(self, [op |-> "draw", caller |-> caller, y |-> y, y_pred |-> y_pred])
        a1 == AxScatter(s0.ax, y, y_pred, [c |-> s0.colors.point])
        a2 == draw_best_fit(y, y_pred, a1, "linear", "--", 2, s0.colors.line)
        a3 == AxSetXlim(a2, SeqMin(y) - One, SeqMax(y) + One)
        a4 == AxSetYlim(a3, SeqMin(y_pred), SeqMax(y_pred) + One)
    IN  [self |-> [s0 EXCEPT !.ax = a4], ret |-> [kind |-> "ax", ax |-> a4]]

PE_draw_BestFitOnce(self, y, y_pred, caller) ==
    LET s0 == Enter(self, [op |-> "draw", caller |-> caller, y |-> y, y_pred |-> y_pred])
        a1 == AxScatter(s0.ax, y, y_pred, [c |-> s0.colors.point])
        a2 == IF \E i \in 1..Len(a1.artists) : a1.artists[i].kind = "bestfit"
              THEN a1
              ELSE draw_best_fit(y, y_pred, a1, "linear", "--", 2, s0.colors.line)
        a3 == AxSetXlim(a2, SeqMin(y) - One, SeqMax(y) + One)
        a4 == AxSetYlim(a3, SeqMin(y_pred) - One, SeqMax(y_pred) + One)
    IN  [self |-> [s0 EXCEPT !.ax = a4], ret |-> [kind |-> "ax", ax |-> a4]]

\* PredictionError.draw(y, y_pred)
PE_draw(self, y, y_pred, caller) ==
    LET s0 == Enter(self, [op |-> "draw", caller |-> caller, y |-> y, y_pred |-> y_pred])
        a1 == AxScatter(s0.ax, y, y_pred, [c |-> s0.colors.point])
        a2 == draw_best_fit(y, y_pred, a1, "linear", "--", 2, s0.colors.line)
        a3 == AxSetXlim(a2, SeqMin(y) - One, SeqMax(y) + One)
        a4 == AxSetYlim(a3, SeqMin(y_pred) - One, SeqMax(y_pred) + One)
    IN  [self |-> [s0 EXCEPT !.ax = a4], ret |-> [kind |-> "ax", ax |-> a4]]

\* Mutant of score: the estimator is scored against the predictions.
PE_score_AgainstPredictions(self, X, y, caller) ==
    LET s0 == Enter(self, [op |-> "score", caller |-> caller, X |-> X, y |-> y])
        y_pred == Predict(s0, X)
        d == PE_draw(s0, y, y_pred, "score")
    IN  [self |-> d.self, ret |-> EstimatorScore(d.self.estimator, X, y_pred)]

\* PredictionError.score(X, y)
PE_score(self, X, y, caller) ==
    LET s0 == Enter(self, [op |-> "score", caller |-> caller, X |-> X, y |-> y])
        y_pred == Predict(s0, X)
        d == PE_draw(s0, y, y_pred, "score")
    IN  [self |-> d.self, ret |-> EstimatorScore(d.self.estimator, X, y)]

\* Mutant of finalize: the title text is added to the text already there.
PE_finalize_AppendsTitle(self, caller) ==
    LET s0 == Enter(self, [op |-> "finalize", caller |-> caller])
        s1 == SetTitle(s0, s0.ax.title \o <<"Prediction Error for ", s0.estimator.name>>)
        a2 == AxSetYlabel(s1.ax, "Predicted")
        a3 == AxSetXlabel(a2, "Measured")
    IN  [self |-> [s1 EXCEPT !.ax = a3], ret |-> [kind |-> "None"]]

\* PredictionError.finalize()
PE_finalize(self, caller) ==
    LET s0 == Enter(self, [op |-> "finalize", caller |-> caller])
        s1 == SetTitle(s0, <<"Prediction Error for ", s0.estimator.name>>)
        a2 == AxSetYlabel(s1.ax, "Predicted")
        a3 == AxSetXlabel(a2, "Measured")
    IN  [self |-> [s1 EXCEPT !.ax = a3], ret |-> [kind |-> "None"]]

(* ----------------------------------------------------------- ResidualsPlot *)

\* ResidualsPlot.__init__(model, ax=None, **kwargs)
RP_init(model, train_color, test_color, line_color) ==
    [ kind |-> "ResidualsPlot", estimator |-> model, ax |-> NewAxes,
      colors |-> [train_point |-> train_color, test_point |-> test_color,
                  line |-> line_color],
      calls |-> <<>> ]

\* Mutant of draw: the two opacities exchanged.
RP_draw_AlphaSwapped(self, y_pred, residuals, train, caller) ==
    LET s0 == Enter(self, [op |-> "draw", caller |-> caller, y_pred |-> y_pred,
                           residuals |-> residuals, train |-> train])
        color == IF train THEN s0.colors.train_point ELSE s0.colors.test_point
        alpha == IF train THEN TestAlpha ELSE TrainAlpha
        a1 == AxScatter(s0.ax, y_pred, residuals,
                        [c |-> color, s |-> MarkerSize, alpha |-> alpha])
    IN  [self |-> [s0 EXCEPT !.ax = a1], ret |-> [kind |-> "ax", ax |-> a1]]

\* ResidualsPlot.draw(y_pred, residuals, train)
RP_draw(self, y_pred, residuals, train, caller) ==
    LET s0 == Enter(self, [op |-> "draw", caller |-> caller, y_pred |-> y_pred,
                           residuals |-> residuals, train |-> train])
        color == IF train THEN s0.colors.train_point ELSE s0.colors.test_point
        alpha == IF train THEN TrainAlpha ELSE TestAlpha
        a1 == AxScatter(s0.ax, y_pred, residuals,
                        [c |-> color, s |-> MarkerSize, alpha |-> alpha])
    IN  [self |-> [s0 EXCEPT !.ax = a1], ret |-> [kind |-> "ax", ax |-> a1]]

\* Mutant of score: the residual taken as actual - predicted.
RP_score_ActualMinusPredicted(self, X, y, train, caller) ==
    LET s0 == Enter(self, [op |-> "score", caller |-> caller, X |-> X, y |-> y,
                           train |-> train])
        y_pred == Predict(s0, X)
        scores == Minus(y, y_pred)
        d == RP_draw(s0, y_pred, scores, train, "score")
    IN  [self |-> d.self, ret |-> [kind |-> "None"]]

\* ResidualsPlot.score(X, y, train)
RP_score(self, X, y, train, caller) ==
    LET s0 == Enter(self, [op |-> "score", caller |-> caller, X |-> X, y |-> y,
                           train |-> train])
        y_pred == Predict(s0, X)
        scores == Minus(y_pred, y)
        d == RP_draw(s0, y_pred, scores, train, "score")
    IN  [self |-> d.self, ret |-> [kind |-> "None"]]

\* Mutant of fit: the scoring pass made with the default train = false.
RP_fit_DefaultTrain(self, X, y, learned, caller) ==
    LET f == BaseFit(self, X, y, learned, caller)
        s == RP_score(f.self, X, y, FALSE, "fit")
    IN  [self |-> s.self, ret |-> [kind |-> "None"]]

\* ResidualsPlot.fit(X, y)
RP_fit(self, X, y, learned, caller) ==
    LET f == BaseFit(self, X, y, learned, caller)
        s == RP_score(f.self, X, y, TRUE, "fit")
    IN  [self |-> s.self, ret |-> [kind |-> "None"]]

\* Mutant of finalize: the zero line added only when the surface has none.
RP_finalize_OneZeroLine(self, caller) ==
    LET s0 == Enter(self, [op |-> "finalize", caller |-> caller])
        s1 == SetTitle(s0, <<"Residuals for ", s0.estimator.name, " Model">>)
        a2 == AxLegend(s1.ax, <<"Training Data", "Test Data">>, "best", TRUE)
        a3 == IF \E i \in 1..Len(a2.artists) : a2.artists[i].kind = "axhline"
              THEN a2
              ELSE AxAxhline(a2, 0, s1.colors.line)
        a4 == AxSetYlabel(a3, "Residuals")
        a5 == AxSetXlabel(a4, "Predicted Value")
    IN  [self |-> [s1 EXCEPT !.ax = a5], ret |-> [kind |-> "None"]]

\* ResidualsPlot.finalize()
RP_finalize(self, caller) ==
    LET s0 == Enter(self, [op |-> "finalize", caller |-> caller])
        s1 == SetTitle(s0, <<"Residuals for ", s0.estimator.name, " Model">>)
        a2 == AxLegend(s1.ax, <<"Training Data", "Test Data">>, "best", TRUE)
        a3 == AxAxhline(a2, 0, s1.colors.line)
        a4 == AxSetYlabel(a3, "Residuals")
        a5 == AxSetXlabel(a4, "Predicted Value")
    IN  [self |-> [s1 EXCEPT !.ax = a5], ret |-> [kind |-> "None"]]

(* ------------------------------------------------------ the quick methods *)

\* train_test_split(X, y, test_size=0.2): a random partition, `perm` being the
\* shuffle; the held-out part is the first ceil(test_size * n) shuffled rows.
NumTest(n) == (n * TestSize + 9) \div 10

TrainTestSplit(X, y, perm) ==
    LET n == Len(X)
        n_test == NumTest(n)
        test == SubSeq(perm, 1, n_test)
        train == SubSeq(perm, n_test + 1, n)
    IN  [ X_train |-> [i \in 1..Len(train) |-> X[train[i]]],
          X_test |-> [i \in 1..Len(test) |-> X[test[i]]],
          y_train |-> [i \in 1..Len(train) |-> y[train[i]]],
          y_test |-> [i \in 1..Len(test) |-> y[test[i]]] ]

Shuffles(n) == {p \in [1..n -> 1..n] : \A i, j \in 1..n : p[i] = p[j] => i = j}

\* prediction_error(model, X, y, ax): `self` is the visualizer it constructs.
prediction_error(self, X, y, perm, learned) ==
    LET s0 == Enter(self, [op |-> "prediction_error", caller |-> "user", X |-> X, y |-> y])
        d == TrainTestSplit(X, y, perm)
        f == BaseFit(s0, d.X_train, d.y_train, learned, "prediction_error")
        s == PE_score(f.self, d.X_test, d.y_test, "prediction_error")
        z == PE_finalize(s.self, "prediction_error")
    IN  [self |-> z.self, ret |-> [kind |-> "ax", ax |-> z.self.ax]]

\* Mutant of residuals_plot: the training part is scored again.
residuals_plot_ScoresTrain(self, X, y, perm, learned) ==
    LET s0 == Enter(self, [op |-> "residuals_plot", caller |-> "user", X |-> X, y |-> y])
        d == TrainTestSplit(X, y, perm)
        f == RP_fit(s0, d.X_train, d.y_train, learned, "residuals_plot")
        s == RP_score(f.self, d.X_train, d.y_train, FALSE, "residuals_plot")
        z == RP_finalize(s.self, "residuals_plot")
    IN  [self |-> z.self, ret |-> [kind |-> "ax", ax |-> z.self.ax]]

\* residuals_plot(model, X, y, ax): `self` is the visualizer it constructs.
residuals_plot(self, X, y, perm, learned) ==
    LET s0 == Enter(self, [op |-> "residuals_plot", caller |-> "user", X |-> X, y |-> y])
        d == TrainTestSplit(X, y, perm)
        f == RP_fit(s0, d.X_train, d.y_train, learned, "residuals_plot")
        s == RP_score(f.self, d.X_test, d.y_test, FALSE, "residuals_plot")
        z == RP_finalize(s.self, "residuals_plot")
    IN  [self |-> z.self, ret |-> [kind |-> "ax", ax |-> z.self.ax]]

(* ------------------------------------------------------- the state machine *)

InitEstimators ==
    { [name |-> "Lasso", fitted |-> FALSE, coef |-> Unfitted],
      [name |-> "Ridge", fitted |-> TRUE, coef |-> ModelB] }

PointColors == {"None", "r"}
TrainColors == {"b", "g"}
TestColors == {"g"}

Init ==
    /\ visualizer \in
         {PE_init(m, c, LINE_COLOR) : m \in InitEstimators, c \in PointColors}
         \cup {RP_init(m, c[1], c[2], LINE_COLOR) :
                 m \in InitEstimators, c \in TrainColors \X TestColors}
    /\ ret = [kind |-> "None"]
    /\ returned = FALSE

NumUserCalls(self) ==
    Cardinality({i \in 1..Len(self.calls) : self.calls[i].caller = "user"})

IsPE == visualizer.kind = "PredictionError"
IsRP == visualizer.kind = "ResidualsPlot"
CanCall == ~returned /\ NumUserCalls(visualizer) < MaxCalls

Do(r) ==
    /\ visualizer' = r.self
    /\ ret' = r.ret
    /\ UNCHANGED returned

PredictionErrorFit ==
    /\ IsPE /\ CanCall
    /\ \E D \in Datasets, learned \in Models :
         Do(BaseFit(visualizer, D.X, D.y, learned, "user"))

PredictionErrorScore ==
    /\ IsPE /\ CanCall
    /\ visualizer.estimator.fitted
    /\ \E D \in Datasets : Do(PE_score(visualizer, D.X, D.y, "user"))

PredictionErrorDraw ==
    /\ IsPE /\ CanCall
    /\ \E a \in DrawArgs : Do(PE_draw(visualizer, a[1], a[2], "user"))

PredictionErrorFinalize ==
    /\ IsPE /\ CanCall
    /\ Do(PE_finalize(visualizer, "user"))

ResidualsPlotFit ==
    /\ IsRP /\ CanCall
    /\ \E D \in Datasets, learned \in Models :
         Do(RP_fit(visualizer, D.X, D.y, learned, "user"))

ResidualsPlotScore ==
    /\ IsRP /\ CanCall
    /\ visualizer.estimator.fitted
    /\ \E D \in Datasets, train \in BOOLEAN :
         Do(RP_score(visualizer, D.X, D.y, train, "user"))

ResidualsPlotDraw ==
    /\ IsRP /\ CanCall
    /\ \E a \in DrawArgs, train \in BOOLEAN :
         Do(RP_draw(visualizer, a[1], a[2], train, "user"))

ResidualsPlotFinalize ==
    /\ IsRP /\ CanCall
    /\ Do(RP_finalize(visualizer, "user"))

\* The quick methods run on the visualizer they have just constructed and
\* return its surface; the visualizer itself is then out of reach.
QuickPredictionError ==
    /\ IsPE /\ ~returned /\ visualizer.calls = <<>>
    /\ \E D \in Datasets, learned \in Models :
         /\ Len(D.X) - NumTest(Len(D.X)) >= 1
         /\ \E perm \in Shuffles(Len(D.X)) :
              LET r == prediction_error(visualizer, D.X, D.y, perm, learned)
              IN  visualizer' = r.self /\ ret' = r.ret /\ returned' = TRUE

QuickResidualsPlot ==
    /\ IsRP /\ ~returned /\ visualizer.calls = <<>>
    /\ \E D \in Datasets, learned \in Models :
         /\ Len(D.X) - NumTest(Len(D.X)) >= 1
         /\ \E perm \in Shuffles(Len(D.X)) :
              LET r == residuals_plot(visualizer, D.X, D.y, perm, learned)
              IN  visualizer' = r.self /\ ret' = r.ret /\ returned' = TRUE

Next ==
    \/ PredictionErrorFit
    \/ PredictionErrorScore
    \/ PredictionErrorDraw
    \/ PredictionErrorFinalize
    \/ ResidualsPlotFit
    \/ ResidualsPlotScore
    \/ ResidualsPlotDraw
    \/ ResidualsPlotFinalize
    \/ QuickPredictionError
    \/ QuickResidualsPlot

Spec == Init /\ [][Next]_vars

(* ------------------------------------------------------------ properties *)

Calls == visualizer.calls
Ax == visualizer.ax
Colors == visualizer.colors
IsScatter(a) == a.kind = "scatter"
Series == SelectSeq(Ax.artists, IsScatter)
CountArtists(kind) == Cardinality({i \in 1..Len(Ax.artists) : Ax.artists[i].kind = kind})
CountCalls(op) == Cardinality({i \in 1..Len(Calls) : Calls[i].op = op})
\* The number of draw calls among the first i calls.
DrawsUpTo(i) == Cardinality({j \in 1..i : Calls[j].op = "draw"})
\* The estimator has not been refitted since call i.
NoFitAfter(i) == \A j \in (i + 1)..Len(Calls) : Calls[j].op # "fit"
Points(a) == [i \in 1..Len(a.x) |-> <<a.x[i], a.y[i]>>]
IsMinOf(m, s) == (\E i \in 1..Len(s) : s[i] = m) /\ (\A i \in 1..Len(s) : m <= s[i])
IsMaxOf(m, s) == (\E i \in 1..Len(s) : s[i] = m) /\ (\A i \in 1..Len(s) : m >= s[i])
LastDraw == CHOOSE i \in 1..Len(Calls) :
              Calls[i].op = "draw" /\ \A j \in (i + 1)..Len(Calls) : Calls[j].op # "draw"

\* C1: when PredictionError.score(X, y) returns, it has called draw(y, predict(X))
\* exactly once (one more scatter series of the points (y[i], predict(X)[i])) and
\* the value it returns is the wrapped estimator's own score(X, y).
C1_ScoreReturnsEstimatorScore ==
    (IsPE /\ Len(Calls) >= 2 /\ Calls[Len(Calls) - 1].op = "score") =>
        LET c == Calls[Len(Calls) - 1]
            d == Calls[Len(Calls)]
            p == [i \in 1..Len(c.X) |-> visualizer.estimator.coef[c.X[i]]]
        IN  /\ d.op = "draw" /\ d.caller = "score"
            /\ d.y = c.y /\ d.y_pred = p
            /\ Len(Series) = DrawsUpTo(Len(Calls))
            /\ Series[Len(Series)].x = c.y /\ Series[Len(Series)].y = p
            /\ ret = EstimatorScore(visualizer.estimator, c.X, c.y)

C1_Witness ==
    /\ IsPE /\ Len(Calls) >= 4
    /\ Calls[Len(Calls) - 1].op = "score" /\ Calls[Len(Calls) - 1].caller = "user"
    /\ ret.kind = "float" /\ ret.ss_res > 0
    /\ Len(Series) = 2

\* C2: for every call of ResidualsPlot.score (by the user, by fit or by the quick
\* method) the residuals handed to draw are predict(X)[i] - y[i] at every index
\* and the series scattered is the points (predict(X)[i], predict(X)[i] - y[i]).
C2_ResidualsArePredMinusActual ==
    IsRP =>
        \A k \in 1..Len(Calls) :
            (Calls[k].op = "score" /\ NoFitAfter(k)) =>
                LET c == Calls[k]
                    p == [i \in 1..Len(c.X) |-> visualizer.estimator.coef[c.X[i]]]
                IN  /\ k < Len(Calls)
                    /\ Calls[k + 1].op = "draw" /\ Calls[k + 1].caller = "score"
                    /\ Calls[k + 1].y_pred = p
                    /\ Len(Calls[k + 1].residuals) = Len(c.y)
                    /\ \A i \in 1..Len(c.y) : Calls[k + 1].residuals[i] = p[i] - c.y[i]
                    /\ DrawsUpTo(k + 1) <= Len(Series)
                    /\ Points(Series[DrawsUpTo(k + 1)])
                         = [i \in 1..Len(c.y) |-> <<p[i], p[i] - c.y[i]>>]

\* The example of the claim: predictions [5, 6], targets [4, 8], train = false.
C2_Witness ==
    /\ IsRP /\ Len(Calls) >= 2
    /\ Calls[Len(Calls) - 1].op = "score" /\ ~Calls[Len(Calls) - 1].train
    /\ Calls[Len(Calls) - 1].y = <<40, 80>>
    /\ Calls[Len(Calls)].op = "draw"
    /\ Calls[Len(Calls)].y_pred = <<50, 60>>
    /\ Calls[Len(Calls)].residuals = <<10, -20>>
    /\ Points(Series[Len(Series)]) = << <<50, 10>>, <<60, -20>> >>
    /\ Series[Len(Series)].style.c = Colors.test_point
    /\ Series[Len(Series)].style.alpha = 10

\* C3: ResidualsPlot.fit fits the estimator and then draws exactly one training
\* series (one score with train = true, one draw); so when the first call on a
\* visualizer is fit, the first scatter series on its surface is a training one.
C3_FitDrawsTrainingSeriesFirst ==
    IsRP =>
        /\ \A k \in 1..Len(Calls) :
             Calls[k].op = "fit" =>
                /\ k + 2 <= Len(Calls)
                /\ visualizer.estimator.fitted
                /\ Calls[k + 1].op = "score" /\ Calls[k + 1].caller = "fit"
                /\ Calls[k + 1].train
                /\ Calls[k + 1].X = Calls[k].X /\ Calls[k + 1].y = Calls[k].y
                /\ Calls[k + 2].op = "draw" /\ Calls[k + 2].caller = "score"
                /\ Calls[k + 2].train
                /\ (k + 3 <= Len(Calls) => Calls[k + 3].caller \notin {"fit", "score"})
                /\ DrawsUpTo(k + 2) = DrawsUpTo(k) + 1
                /\ Len(Series) >= DrawsUpTo(k + 2)
                /\ Series[DrawsUpTo(k + 2)].style.alpha = 5
                /\ Series[DrawsUpTo(k + 2)].style.c = Colors.train_point
        /\ (Len(Calls) >= 1 /\ Calls[1].op = "fit") =>
                /\ Len(Series) >= 1
                /\ Series[1].style.alpha = 5
                /\ Series[1].style.c = Colors.train_point
                /\ Series[1].x = Calls[3].y_pred

\* fit, then a test score: two series, the training one first.
C3_Witness ==
    /\ IsRP /\ ~returned /\ Len(Calls) = 5
    /\ Calls[1].op = "fit" /\ Calls[4].op = "score" /\ ~Calls[4].train
    /\ Len(Series) = 2
    /\ Series[1].style.alpha = 5 /\ Series[2].style.alpha = 10

\* C4: the k-th scatter series of a ResidualsPlot is the k-th draw call's; drawn
\* with train = true it has opacity 0.5 and the train_point colour, drawn with
\* train = false opacity 1.0 and the test_point colour, whatever the colours are.
C4_TrainTestStyle ==
    IsRP =>
        /\ Len(Series) = CountCalls("draw")
        /\ \A k \in 1..Len(Calls) :
             Calls[k].op = "draw" =>
                LET a == Series[DrawsUpTo(k)]
                IN  IF Calls[k].train
                    THEN a.style.alpha = 5 /\ a.style.c = Colors.train_point
                    ELSE a.style.alpha = 10 /\ a.style.c = Colors.test_point

\* Both colours configured to the same value, one series of each category.
C4_Witness ==
    /\ IsRP /\ Colors.train_point = Colors.test_point
    /\ Len(Series) = 2
    /\ Calls[Len(Calls)].op = "draw" /\ ~Calls[Len(Calls)].train
    /\ Series[1].style.alpha = 5 /\ Series[2].style.alpha = 10
    /\ Series[1].style.c = Series[2].style.c

\* C5: once PredictionError.draw(y, y_pred) has been called, the x-range of the
\* surface is [min(y) - 1, max(y) + 1] and its y-range [min(y_pred) - 1,
\* max(y_pred) + 1], for the arguments of the latest call.
C5_AxisRange ==
    (IsPE /\ CountCalls("draw") >= 1) =>
        LET d == Calls[LastDraw]
        IN  /\ IsMinOf(Ax.xlim[1] + 10, d.y)
            /\ IsMaxOf(Ax.xlim[2] - 10, d.y)
            /\ IsMinOf(Ax.ylim[1] + 10, d.y_pred)
            /\ IsMaxOf(Ax.ylim[2] - 10, d.y_pred)

\* Unsorted targets with a negative prediction: x-range [0, 9], y-range [-2.5, 7].
C5_Witness ==
    /\ IsPE /\ Len(Calls) >= 1
    /\ Calls[Len(Calls)].op = "draw"
    /\ Calls[Len(Calls)].y = <<10, 20, 30, 40, 80>>
    /\ Calls[Len(Calls)].y_pred = <<50, 60, -15, 60, 50>>
    /\ Ax.xlim = <<0, 90>> /\ Ax.ylim = <<-25, 70>>

\* The latest draw call is that of scenario 1: targets [1, 2, 3], predictions
\* [1.1, 2.2, 2.9].
Scenario1 ==
    /\ IsPE /\ CountCalls("draw") >= 1
    /\ Calls[LastDraw].y = <<10, 20, 30>>
    /\ Calls[LastDraw].y_pred = <<11, 22, 29>>

\* C6 as stated: in scenario 1 draw scatters (1, 1.1), (2, 2.2), (3, 2.9) and sets
\* the x-range to [0, 4] and the y-range to [1.1, 3.9].
C6_Original ==
    Scenario1 =>
        /\ Points(Series[Len(Series)]) = << <<10, 11>>, <<20, 22>>, <<30, 29>> >>
        /\ Ax.xlim = <<0, 40>>
        /\ Ax.ylim = <<11, 39>>

\* C6, amended: in scenario 1 draw scatters (1, 1.1), (2, 2.2), (3, 2.9) and sets
\* the x-range to [0, 4] and the y-range to [0.1, 3.9].
C6_Scenario1Ranges ==
    Scenario1 =>
        /\ Points(Series[Len(Series)]) = << <<10, 11>>, <<20, 22>>, <<30, 29>> >>
        /\ Ax.xlim = <<0, 40>>
        /\ Ax.ylim = <<1, 39>>

\* Scenario 1 reached through score on an estimator predicting [1.1, 2.2, 2.9].
C6_Witness ==
    /\ Scenario1 /\ Len(Calls) >= 2
    /\ Calls[Len(Calls) - 1].op = "score"
    /\ Calls[Len(Calls) - 1].X = <<10, 20, 30>>
    /\ [i \in 1..3 |-> visualizer.estimator.coef[Calls[Len(Calls) - 1].X[i]]] = <<11, 22, 29>>

\* C7: for both visualizers, a finalize that directly follows a finalize leaves
\* the title, the x-axis label and the y-axis label as the first one set them.
C7_FinalizeTwiceSameText ==
    [][ ( /\ Len(Calls) >= 1
          /\ Calls[Len(Calls)].op = "finalize"
          /\ Len(visualizer'.calls) = Len(Calls) + 1
          /\ visualizer'.calls[Len(Calls) + 1].op = "finalize" )
        => ( /\ visualizer'.ax.title = Ax.title
             /\ visualizer'.ax.xlabel = Ax.xlabel
             /\ visualizer'.ax.ylabel = Ax.ylabel
             /\ Len(Ax.title) \in {2, 3}
             /\ Ax.xlabel \in {"Measured", "Predicted Value"}
             /\ Ax.ylabel \in {"Predicted", "Residuals"} ) ]_vars

C7_Witness ==
    /\ Len(Calls) >= 3
    /\ Calls[Len(Calls)].op = "finalize"
    /\ Calls[Len(Calls) - 1].op = "finalize"
    /\ Len(Ax.artists) >= 2
    /\ Ax.title \in { <<"Prediction Error for ", "Lasso">>,
                      <<"Residuals for ", "Ridge", " Model">> }

\* The rows (X[i], y[i]) of a dataset, and a split of them into two parts.
Rows(X, y) == [i \in 1..Len(X) |-> <<X[i], y[i]>>]
IsPartition(all, a, b) ==
    /\ Len(a) + Len(b) = Len(all)
    /\ \E p \in Shuffles(Len(all)) :
          \A i \in 1..Len(all) :
              all[p[i]] = (IF i <= Len(a) THEN a[i] ELSE b[i - Len(a)])
\* n_test is 0.2 * n, rounded up.
IsFifth(n_test, n) == 5 * n_test >= n /\ 5 * (n_test - 1) < n

\* C8: a quick method, on the one visualizer it constructs, splits the data 80/20,
\* then calls fit on the training part, score on the held-out part and finalize,
\* once each and in that order, and returns the surface; for residuals_plot the
\* surface holds the training series, then the test series, both of them there
\* when the legend is added.
C8_QuickMethodOrder ==
    returned =>
        LET q == Calls[1]
            f == Calls[2]
            k == IF IsPE THEN 3 ELSE 5
            sc == Calls[k]
        IN  /\ q.op = (IF IsPE THEN "prediction_error" ELSE "residuals_plot")
            /\ CountCalls(q.op) = 1
            /\ f.op = "fit" /\ f.caller = q.op
            /\ sc.op = "score" /\ sc.caller = q.op
            /\ Calls[k + 1].op = "draw" /\ Calls[k + 1].caller = "score"
            /\ Calls[k + 2].op = "finalize" /\ Calls[k + 2].caller = q.op
            /\ Len(Calls) = k + 2
            /\ {i \in 1..Len(Calls) : Calls[i].caller = q.op} = {2, k, k + 2}
            /\ IsFifth(Len(sc.X), Len(q.X))
            /\ IsPartition(Rows(q.X, q.y), Rows(f.X, f.y), Rows(sc.X, sc.y))
            /\ ret = [kind |-> "ax", ax |-> Ax]
            /\ Ax.title # <<>>
            /\ IsPE => /\ Len(Series) = 1
                       /\ Series[1].x = sc.y
            /\ IsRP => /\ ~sc.train
                       /\ Calls[3].op = "score" /\ Calls[3].train
                       /\ Len(Series) = 2
                       /\ Series[1].style.alpha = 5 /\ Series[1].x = Calls[4].y_pred
                       /\ Series[2].style.alpha = 10 /\ Series[2].x = Calls[6].y_pred
                       /\ Ax.legend.labels = <<"Training Data", "Test Data">>
                       /\ Ax.legend.handles = Series
                       /\ Ax.artists[1] = Series[1] /\ Ax.artists[2] = Series[2]

\* residuals_plot on five rows: four training points and one held-out point.
C8_Witness ==
    /\ returned /\ IsRP
    /\ Len(Calls[1].X) = 5
    /\ Len(Series) = 2
    /\ Len(Series[1].x) = 4 /\ Len(Series[2].x) = 1
    /\ Len(Ax.artists) = 3

\* C9: a PredictionError surface holds one scatter series and one best-fit line
\* for each call of draw made so far, directly or through score.
C9_OneBestFitPerDraw ==
    IsPE =>
        /\ CountArtists("scatter") = CountCalls("draw")
        /\ CountArtists("bestfit") = CountCalls("draw")
        /\ Len(Ax.artists) = 2 * CountCalls("draw")
        /\ \A i \in 1..CountCalls("draw") :
              /\ Ax.artists[2 * i - 1].kind = "scatter"
              /\ Ax.artists[2 * i].kind = "bestfit"
              /\ Ax.artists[2 * i].X = Ax.artists[2 * i - 1].x
              /\ Ax.artists[2 * i].y = Ax.artists[2 * i - 1].y

\* Three draws, one of them through score: three series and three lines.
C9_Witness ==
    /\ IsPE /\ CountCalls("draw") = 3 /\ CountCalls("score") >= 1
    /\ CountArtists("bestfit") = 3

\* C10: a ResidualsPlot surface holds one zero-reference line per finalize call
\* made, and once finalize has been called the title, the axis labels and the
\* legend labels are the fixed ones, whatever series were drawn.
C10_FinalizeAddsZeroLine ==
    IsRP =>
        /\ CountArtists("axhline") = CountCalls("finalize")
        /\ \A i \in 1..Len(Ax.artists) :
              Ax.artists[i].kind = "axhline" =>
                  Ax.artists[i].y = 0 /\ Ax.artists[i].c = Colors.line
        /\ CountCalls("finalize") >= 1 =>
              /\ Ax.title = <<"Residuals for ", visualizer.estimator.name, " Model">>
              /\ Ax.xlabel = "Predicted Value"
              /\ Ax.ylabel = "Residuals"
              /\ Ax.legend.labels = <<"Training Data", "Test Data">>

\* Two finalize calls after a single test series: two zero lines.
C10_Witness ==
    /\ IsRP /\ CountCalls("finalize") = 2
    /\ CountArtists("axhline") = 2
    /\ Len(Series) = 1 /\ Series[1].style.alpha = 10
    /\ Ax.legend.labels = <<"Training Data", "Test Data">>

====
